---- MODULE Spec2Model ----
(***************************************************************************)
(* Model of the selective persistence engine SessionStorage<T> of          *)
(* src/src/lib/session-storage/session-storage.model.ts (the definition    *)
(* with the init / restore / exit lifecycle, lines 389-767) together with  *)
(* the two browser storages it writes and the orchestrator's IDO record.   *)
(*                                                                         *)
(* JavaScript values are named by strings:                                 *)
(*   "A", "B"  two distinct JSON values                                    *)
(*   "NULL"    null                                                        *)
(*   "UNDEF"   undefined                                                   *)
(*   "CYC"     an object with a cycle (JSON.stringify throws on it)        *)
(*   "FN"      a function (a callable signal read as a value)              *)
(* Storage texts are other strings: "tA", "tB" (the JSON text of A, B),    *)
(* "null", "undefined" and "{bad" (text that is not JSON).  Absent is what *)
(* getItem reports (null) for a key without an entry.                      *)
(***************************************************************************)
EXTENDS Naturals, Sequences, FiniteSets, TLC

VARIABLES
    permanent,   \* this.permanent: the tier configuration, or NoConfig
    store,       \* this.store: property name -> cell
    session,     \* sessionStorage entries under KEY_PREFIX: name -> text
    local,       \* localStorage entries under KEY_PREFIX: name -> text
    idoRec,      \* localStorage entry under the orchestrator's IDO key
    threw,       \* whether the last call ended by throwing
    store0,      \* the store the engine is constructed with
    hist,        \* the last calls, most recent first (see Push)
    calls,       \* how many calls were made
    foreign,     \* the storage entries of engines with other prefixes
    idoKey       \* the prefixes of an engine and its orchestrator, and the
                 \* IDO keys init, exit and restore derive from them

vars == <<permanent, store, session, local, idoRec, threw, store0, hist, calls, foreign, idoKey>>

----------------------------------------------------------------------------
\* Bounds of the model

\* How many calls a run makes.
MaxCalls == 4

\* How many calls a run makes when other engines use the same storages.
MaxSharedCalls == 3

\* How long a KEY_PREFIX drawn from PrefixChars is at most.
MaxPrefixLen == 2

----------------------------------------------------------------------------
\* Names, values, texts

Keys == {"a", "b"}

\* Property names in the order the configuration arrays list them.
KeySeq == <<"a", "b">>

\* The remote (IDO) name a shared property is mapped to.
Remote(k) == IF k = "a" THEN "ra" ELSE "rb"

Remotes == {Remote(k) : k \in Keys}

JsonValues == {"A", "B", "NULL"}

\* The values a caller may hand to set.
SetValues == {"A", "B", "NULL", "UNDEF", "CYC"}

\* The set calls of the model: every value for property a, one for property b.
SetInputs == {<<"a", v>> : v \in SetValues} \cup {<<"b", "A">>}

Absent == "<absent>"

BadText == "{bad"

\* JSON.stringify(v) throws (a cycle).
StringifyThrows(v) == v = "CYC"

\* The text setItem stores for JSON.stringify(v): undefined and functions
\* stringify to undefined, which setItem turns into the text "undefined".
Stringify(v) ==
    CASE v = "A" -> "tA"
      [] v = "B" -> "tB"
      [] v = "NULL" -> "null"
      [] OTHER -> "undefined"

\* JSON.parse(t) returns a value (otherwise it throws a SyntaxError).
ParseOk(t) == t \in {"tA", "tB", "null"}

Parse(t) ==
    CASE t = "tA" -> "A"
      [] t = "tB" -> "B"
      [] OTHER -> "NULL"

----------------------------------------------------------------------------
\* The container (this.store)

\* A property of the store: a plain value, an object with a set method
\* ("cell", what the engine takes for a signal), a callable signal with a
\* set method ("signal", what the state service creates), or no property.
Cell(kind, val) == [kind |-> kind, val |-> val]

NoCell == Cell("absent", "UNDEF")

\* The test the engine makes before it calls .set on a property:
\* storeProperty && typeof storeProperty === 'object' && 'set' in storeProperty
\* && typeof storeProperty.set === 'function'.  A callable signal is of type
\* 'function' and fails it.
IsSignal(c) == c.kind = "cell"

\* The value a property currently carries: what a cell or signal was last
\* set to, the plain value, undefined for a missing property.
ValueOf(c) == c.val

\* What reading this.store[key] as a value yields: the plain value, or the
\* cell / signal object itself (never undefined or null).
IsNullish(c) == c.kind = "absent" \/ (c.kind = "plain" /\ c.val \in {"NULL", "UNDEF"})

\* storeProperty.set(v)
CellSet(c, v) == Cell(c.kind, v)

\* this.store[key] = v
Plain(v) == Cell("plain", v)

\* getState() of the state service (state-control.service.ts, lines 105-120):
\* a property that is a function is called, any other is returned as it is
\* (an object with a set method is returned as that object, "CELL"); a
\* missing property is not in the result ("UNDEF").
GetState(st) ==
    [k \in Keys |->
        CASE st[k].kind = "absent" -> "UNDEF"
          [] st[k].kind = "cell" -> "CELL"
          [] OTHER -> st[k].val]

----------------------------------------------------------------------------
\* The tier configuration (this.permanent)

NoConfig == [on |-> FALSE, localStorage |-> {}, sessionStorage |-> {}, ido |-> {}]

Config(ls, ss, ido) == [on |-> TRUE, localStorage |-> ls, sessionStorage |-> ss, ido |-> ido]

\* The state the operations read and write.
State(st, ss, ls, ir) == [store |-> st, session |-> ss, local |-> ls, idoRec |-> ir]

Cur == State(store, session, local, idoRec)

----------------------------------------------------------------------------
\* set(key, value), lines 405-420

\* set under which the first value written stays.
SetSessionTextKeepsFirst(old, v) == IF old = Absent THEN Stringify(v) ELSE old

\* The sessionStorage entry of key after set(key, v).
SetSessionText(old, v) == Stringify(v)

\* The store property of key after set(key, v) did not throw.
SetStoreCell(c, v) == IF IsSignal(c) THEN CellSet(c, v) ELSE Plain(v)

\* set that swallows the serialization error.
SetNeverThrows(s, k, v) == FALSE

SetThrows(s, k, v) == StringifyThrows(v)

SetResult(s, k, v) ==
    IF IsSignal(s.store[k])
    THEN \* the signal is set before the value is serialized
         IF StringifyThrows(v)
         THEN [s EXCEPT !.store[k] = CellSet(s.store[k], v)]
         ELSE [s EXCEPT !.store[k] = SetStoreCell(s.store[k], v),
                        !.session[k] = SetSessionText(s.session[k], v)]
    ELSE IF StringifyThrows(v)
         THEN s
         ELSE [s EXCEPT !.session[k] = SetSessionText(s.session[k], v),
                        !.store[k] = SetStoreCell(s.store[k], v)]

----------------------------------------------------------------------------
\* get(key), lines 427-451 (called without a default value)

\* get parses the entry (it is present, not the text "undefined", and JSON).
GetParses(t) == t # Absent /\ t # "undefined" /\ ParseOk(t)

\* The value get(key) returns: defaultValue ?? null when nothing is parsed.
GetReturn(s, k) == IF GetParses(s.session[k]) THEN Parse(s.session[k]) ELSE "NULL"

\* get writes the parsed value back into the store.
GetResult(s, k) ==
    IF GetParses(s.session[k])
    THEN [s EXCEPT !.store[k] =
             IF IsSignal(s.store[k])
             THEN CellSet(s.store[k], Parse(s.session[k]))
             ELSE Plain(Parse(s.session[k]))]
    ELSE s

----------------------------------------------------------------------------
\* The orchestrator's IDO record: the localStorage entry under
\* orchestratorStorage.KEY_PREFIX + featureName + "Ido".  The JSON text of an
\* object is modelled by the text of each member (Absent: no such member).

NoMembers == [r \in Remotes |-> Absent]

IdoAbsent == [kind |-> "absent", members |-> NoMembers]

IdoBad == [kind |-> "bad", members |-> NoMembers]

\* JSON.stringify(idoData) for idoData: remote name -> value ("UNDEF": the
\* object has no such key).  A function-valued member is left out.
IdoText(data) ==
    [kind |-> "obj",
     members |-> [r \in Remotes |->
                    IF data[r] \in {"UNDEF", "FN"} THEN Absent ELSE Stringify(data[r])]]

\* JSON.stringify(idoData) throws.
IdoTextThrows(data) == \E r \in Remotes : StringifyThrows(data[r])

\* Object.keys(idoData).length > 0
IdoNonEmpty(data) == \E r \in Remotes : data[r] # "UNDEF"

\* if (idoDataStr && idoDataStr !== 'undefined') and JSON.parse succeeds
IdoParses(rec) == rec.kind = "obj"

\* idoData[idoProperty] of the parsed record ("UNDEF": undefined)
IdoMember(rec, r) ==
    IF rec.members[r] = Absent THEN "UNDEF" ELSE Parse(rec.members[r])

----------------------------------------------------------------------------
\* removeAll(), lines 497-510

\* removeAll that clears localStorage as well.
RemoveAllClearsLocal(s) ==
    [s EXCEPT !.session = [k \in Keys |-> Absent],
              !.store = [k \in Keys |-> NoCell],
              !.local = [k \in Keys |-> Absent]]

\* removeAll that leaves the store alone.
RemoveAllKeepsStore(s) == [s EXCEPT !.session = [k \in Keys |-> Absent]]

RemoveAllResult(s) ==
    [s EXCEPT !.session = [k \in Keys |-> Absent],
              !.store = [k \in Keys |-> NoCell]]

----------------------------------------------------------------------------
\* exit(orchestratorStorage), lines 526-594

\* exit that copies a localStorage property's entry and leaves it in
\* sessionStorage.
ExitSessionEntryKeepsMoved(perm, k, t) ==
    IF k \in perm.localStorage \cup perm.sessionStorage THEN t ELSE Absent

\* exit without the branch that keeps sessionStorage properties.
ExitSessionEntryClearsAll(perm, k, t) == Absent

\* The sessionStorage entry of property k after the loop over allKeys.
ExitSessionEntry(perm, k, t) ==
    IF t = Absent THEN Absent
    ELSE IF k \in perm.localStorage THEN Absent
    ELSE IF k \in perm.sessionStorage THEN t
    ELSE Absent

\* exit deleting the localStorage entry of a property it has nothing to move for.
ExitLocalEntryDropsUnset(perm, k, t, l) ==
    IF k \in perm.localStorage THEN t ELSE l

\* exit removing a localStorage property's entry without copying it.
ExitLocalEntryNotCopied(perm, k, t, l) == l

\* The localStorage entry of property k after the loop over allKeys.
ExitLocalEntry(perm, k, t, l) ==
    IF t # Absent /\ k \in perm.localStorage THEN t ELSE l

\* The state after the loop over allKeys (lines 536-559).
ExitMove(perm, s) ==
    [s EXCEPT !.session = [k \in Keys |-> ExitSessionEntry(perm, k, s.session[k])],
              !.local = [k \in Keys |-> ExitLocalEntry(perm, k, s.session[k], s.local[k])]]

\* idoData as assembled at lines 563-571: this.get(stateProperty) per mapping.
ExitIdoData(perm, s) ==
    [r \in Remotes |->
        IF \E k \in perm.ido : Remote(k) = r /\ GetReturn(s, k) # "NULL"
        THEN GetReturn(s, CHOOSE k \in perm.ido : Remote(k) = r /\ GetReturn(s, k) # "NULL")
        ELSE "UNDEF"]

\* The record exit stores: localStorage.setItem(orchestratorIdoKey, ...).
ExitIdoRecord(old, data) == IdoText(data)

\* The IDO step (lines 561-584): every this.get writes the store as well.
ExitIdo(perm, s, orch) ==
    IF perm.ido # {} /\ orch
    THEN LET got == [s EXCEPT !.store =
                        [k \in Keys |-> IF k \in perm.ido
                                        THEN GetResult(s, k).store[k]
                                        ELSE s.store[k]]]
             data == ExitIdoData(perm, s)
         IN  IF IdoNonEmpty(data)
             THEN [got EXCEPT !.idoRec = ExitIdoRecord(s.idoRec, data)]
             ELSE got
    ELSE s

\* exit that keeps the store properties listed in ido as well.
ExitKeepsShared(perm, k) ==
    k \in perm.localStorage \/ k \in perm.sessionStorage \/ k \in perm.ido

\* exit without the loop that clears the store.
ExitKeepsAll(perm, k) == TRUE

\* Whether exit keeps the store property k (lines 587-593).
ExitKeeps(perm, k) == k \in perm.localStorage \/ k \in perm.sessionStorage

ExitClear(perm, s) ==
    [s EXCEPT !.store = [k \in Keys |-> IF ExitKeeps(perm, k) THEN s.store[k] ELSE NoCell]]

ExitResult(perm, s, orch) ==
    IF ~perm.on
    THEN RemoveAllResult(s)
    ELSE ExitClear(perm, ExitIdo(perm, ExitMove(perm, s), orch))

----------------------------------------------------------------------------
\* restore(orchestratorStorage), lines 706-766

\* restore without the test for the text 'undefined'.
RestoreReadsAnyText(t) == t # Absent

\* A stored text restore reads: value !== null && value !== 'undefined'.
RestoreReads(t) == t # Absent /\ t # "undefined"

\* restore that drops a sessionStorage entry it finds already mirrored.
RestoreMirrorDropsMirrored(t, l) ==
    IF RestoreReads(l) THEN (IF t = l THEN Absent ELSE l) ELSE t

\* restore without sessionStorage.setItem(fullKey, value) at line 719.
RestoreMirrorMissing(t, l) == t

\* The sessionStorage entry of a localStorage property k after lines 714-726:
\* sessionStorage.setItem(fullKey, value) comes before JSON.parse(value).
RestoreMirror(t, l) == IF RestoreReads(l) THEN l ELSE t

\* restore that reads the entries and writes nothing into the store.
RestoreCellNotWritten(c, t) == c

\* restore writing the store whether or not the text parsed.
RestoreCellUnguarded(c, t) == IF RestoreReads(t) THEN Plain(Parse(t)) ELSE c

\* The store property after one text was read (a text that does not parse is
\* caught and logged).
RestoreCell(c, t) == IF RestoreReads(t) /\ ParseOk(t) THEN Plain(Parse(t)) ELSE c

\* Restore from localStorage (lines 713-726).
RestoreLocal(perm, s) ==
    [s EXCEPT !.session = [k \in Keys |-> IF k \in perm.localStorage
                                          THEN RestoreMirror(s.session[k], s.local[k])
                                          ELSE s.session[k]],
              !.store = [k \in Keys |-> IF k \in perm.localStorage
                                        THEN RestoreCell(s.store[k], s.local[k])
                                        ELSE s.store[k]]]

\* restore copying what it reads from sessionStorage into localStorage.
RestoreSessionMirrorsToLocal(perm, s) ==
    [s EXCEPT !.store = [k \in Keys |-> IF k \in perm.sessionStorage
                                        THEN RestoreCell(s.store[k], s.session[k])
                                        ELSE s.store[k]],
              !.local = [k \in Keys |-> IF k \in perm.sessionStorage /\ RestoreReads(s.session[k])
                                        THEN s.session[k]
                                        ELSE s.local[k]]]

\* Restore from sessionStorage (lines 728-740).
RestoreSession(perm, s) ==
    [s EXCEPT !.store = [k \in Keys |-> IF k \in perm.sessionStorage
                                        THEN RestoreCell(s.store[k], s.session[k])
                                        ELSE s.store[k]]]

\* if (idoData[idoProperty] !== undefined), line 754
RestoreTakesIdo(rec, k) == IdoMember(rec, Remote(k)) # "UNDEF"

\* restore without the sessionStorage.setItem at line 758.
RestoreIdoTextNotMirrored(rec, k, t) == t

\* sessionStorage.setItem(fullKey, JSON.stringify(idoData[idoProperty])), line 758
RestoreIdoText(rec, k, t) == Stringify(IdoMember(rec, Remote(k)))

\* restore that reads the IDO record without an orchestrator as well.
RestoreIdoWithoutOrchestrator(perm, s, orch) ==
    IF perm.ido # {} /\ IdoParses(s.idoRec)
    THEN [s EXCEPT
            !.store = [k \in Keys |->
                IF k \in perm.ido /\ RestoreTakesIdo(s.idoRec, k)
                THEN Plain(IdoMember(s.idoRec, Remote(k)))
                ELSE s.store[k]],
            !.session = [k \in Keys |->
                IF k \in perm.ido /\ RestoreTakesIdo(s.idoRec, k)
                THEN RestoreIdoText(s.idoRec, k, s.session[k])
                ELSE s.session[k]]]
    ELSE s

\* restore that drops the shared properties when the IDO record does not parse.
RestoreIdoDropsOnBadRecord(perm, s, orch) ==
    IF perm.ido # {} /\ orch
    THEN IF IdoParses(s.idoRec)
         THEN [s EXCEPT
                 !.store = [k \in Keys |->
                     IF k \in perm.ido /\ RestoreTakesIdo(s.idoRec, k)
                     THEN Plain(IdoMember(s.idoRec, Remote(k)))
                     ELSE s.store[k]],
                 !.session = [k \in Keys |->
                     IF k \in perm.ido /\ RestoreTakesIdo(s.idoRec, k)
                     THEN RestoreIdoText(s.idoRec, k, s.session[k])
                     ELSE s.session[k]]]
         ELSE IF s.idoRec.kind = "bad"
         THEN [s EXCEPT !.store = [k \in Keys |-> IF k \in perm.ido THEN NoCell ELSE s.store[k]]]
         ELSE s
    ELSE s

\* restore ignoring its orchestratorStorage argument.
RestoreIdoIgnoresOrchestrator(perm, s, orch) == s

\* Restore from the orchestrator's IDO record (lines 742-765).
RestoreIdo(perm, s, orch) ==
    IF perm.ido # {} /\ orch /\ IdoParses(s.idoRec)
    THEN [s EXCEPT
            !.store = [k \in Keys |->
                IF k \in perm.ido /\ RestoreTakesIdo(s.idoRec, k)
                THEN Plain(IdoMember(s.idoRec, Remote(k)))
                ELSE s.store[k]],
            !.session = [k \in Keys |->
                IF k \in perm.ido /\ RestoreTakesIdo(s.idoRec, k)
                THEN RestoreIdoText(s.idoRec, k, s.session[k])
                ELSE s.session[k]]]
    ELSE s

\* restore that, without a configuration, clears like exit does.
RestoreResultClearsUnconfigured(perm, s, orch) ==
    IF ~perm.on
    THEN RemoveAllResult(s)
    ELSE RestoreIdo(perm, RestoreSession(perm, RestoreLocal(perm, s)), orch)

RestoreResult(perm, s, orch) ==
    IF ~perm.on
    THEN s
    ELSE RestoreIdo(perm, RestoreSession(perm, RestoreLocal(perm, s)), orch)

----------------------------------------------------------------------------
\* init(orchestratorStorage), lines 600-695

\* init reads the property as a signal by calling it: (storeProperty as any)().
\* The property passed the typeof === 'object' test, so the call is a
\* TypeError, thrown outside the try blocks.
InitCallThrows(c) == IsSignal(c)

\* valueToStore for a property that is not read as a signal: the property
\* itself, which for a callable signal is the function.
InitValue(c) == IF c.kind = "signal" THEN "FN" ELSE c.val

\* The text init writes for a property, or the old text when the property is
\* undefined or null or its serialization throws (caught and logged).
InitText(c, old) ==
    IF IsNullish(c) \/ StringifyThrows(InitValue(c)) THEN old ELSE Stringify(InitValue(c))

\* The properties init reads, in order: localStorageKeys, sessionStorageKeys,
\* then the ido mappings (only with an orchestrator); 1, 2, 3 name the loop.
InitSteps(perm, orch) ==
    LET sel(S, n) == SelectSeq([i \in 1..Len(KeySeq) |-> <<n, KeySeq[i]>>],
                               LAMBDA x : x[2] \in S)
    IN  sel(perm.localStorage, 1) \o sel(perm.sessionStorage, 2)
        \o (IF orch THEN sel(perm.ido, 3) ELSE << >>)

\* The first step at which init throws, or 0.
InitThrowAt(perm, s, orch) ==
    LET steps == InitSteps(perm, orch)
        bad == {i \in 1..Len(steps) :
                  ~IsNullish(s.store[steps[i][2]]) /\ InitCallThrows(s.store[steps[i][2]])}
    IN  IF bad = {} THEN 0 ELSE CHOOSE i \in bad : \A j \in bad : i <= j

\* Whether init reached loop n for property k.
InitDid(perm, s, orch, n, k) ==
    LET steps == InitSteps(perm, orch)
        at == InitThrowAt(perm, s, orch)
    IN  \E i \in 1..Len(steps) : steps[i] = <<n, k>> /\ (at = 0 \/ i < at)

InitThrows(perm, s, orch) == perm.on /\ InitThrowAt(perm, s, orch) # 0

\* idoData as assembled at lines 664-681.
InitIdoData(perm, s) ==
    [r \in Remotes |->
        IF \E k \in perm.ido : Remote(k) = r /\ ~IsNullish(s.store[k])
        THEN InitValue(s.store[CHOOSE k \in perm.ido : Remote(k) = r /\ ~IsNullish(s.store[k])])
        ELSE "UNDEF"]

InitResult(perm, s, orch) ==
    IF ~perm.on
    THEN s
    ELSE LET data == InitIdoData(perm, s)
         IN [s EXCEPT
               !.local = [k \in Keys |-> IF InitDid(perm, s, orch, 1, k)
                                         THEN InitText(s.store[k], s.local[k])
                                         ELSE s.local[k]],
               !.session = [k \in Keys |-> IF InitDid(perm, s, orch, 2, k)
                                           THEN InitText(s.store[k], s.session[k])
                                           ELSE s.session[k]],
               !.idoRec = IF perm.ido # {} /\ orch /\ InitThrowAt(perm, s, orch) = 0
                             /\ IdoNonEmpty(data) /\ ~IdoTextThrows(data)
                          THEN IdoText(data)
                          ELSE s.idoRec]

----------------------------------------------------------------------------
\* Storage keys.  A key is KEY_PREFIX + property name; strings are sequences
\* of characters here, so that startsWith and replace are computed.

\* this.KEY_PREFIX of the engine
KEY_PREFIX == <<"P", "-">>

\* The engines with another prefix that use the same storages: "ext" has a
\* prefix that starts with KEY_PREFIX, "far" has an unrelated one.  Each has
\* one property, c.
Others == {"ext", "far"}

OtherPrefix(n) == IF n = "ext" THEN <<"P", "-", "X", "-">> ELSE <<"Q", "-">>

\* The key of the other engine's property: its KEY_PREFIX + String(key).
OtherKey(n) == OtherPrefix(n) \o <<"c">>

\* key.startsWith(prefix)
StartsWith(key, prefix) ==
    Len(key) >= Len(prefix) /\ SubSeq(key, 1, Len(prefix)) = prefix

\* fullKey.replace(this.KEY_PREFIX, '') for a key that starts with the prefix
PropertyKey(fullKey) == SubSeq(fullKey, Len(KEY_PREFIX) + 1, Len(fullKey))

\* list.includes(propertyKey) for a list of the engine's property names
Includes(list, propertyKey) == \E k \in list : <<k>> = propertyKey

\* The entries of the other engines: none.
NoForeign == [n \in Others |-> [session |-> Absent, local |-> Absent]]

\* The other engines' entries after this engine's removeAll (lines 499-504):
\* every sessionStorage key that starts with KEY_PREFIX is removed.
RemoveAllForeign(f) ==
    [n \in Others |->
        IF StartsWith(OtherKey(n), KEY_PREFIX)
        THEN [f[n] EXCEPT !.session = Absent]
        ELSE f[n]]

\* The other engines' entries after this engine's exit (lines 526-559): every
\* sessionStorage key that starts with KEY_PREFIX is moved, kept or removed
\* by what is left of it without the prefix.
ExitForeign(perm, f) ==
    IF ~perm.on
    THEN RemoveAllForeign(f)
    ELSE [n \in Others |->
            IF f[n].session # Absent /\ StartsWith(OtherKey(n), KEY_PREFIX)
            THEN IF Includes(perm.localStorage, PropertyKey(OtherKey(n)))
                 THEN [session |-> Absent, local |-> f[n].session]
                 ELSE IF Includes(perm.sessionStorage, PropertyKey(OtherKey(n)))
                 THEN f[n]
                 ELSE [f[n] EXCEPT !.session = Absent]
            ELSE f[n]]

----------------------------------------------------------------------------
\* The IDO key.  init, exit and restore each derive the key of the IDO record
\* from this.KEY_PREFIX and orchestratorStorage.KEY_PREFIX.

\* c.toLowerCase() for one character
LowerChar(c) ==
    CASE c = "A" -> "a"
      [] c = "C" -> "c"
      [] c = "H" -> "h"
      [] c = "O" -> "o"
      [] c = "R" -> "r"
      [] c = "T" -> "t"
      [] c = "U" -> "u"
      [] OTHER -> c

\* s.toLowerCase()
ToLowerCase(s) == [i \in 1..Len(s) |-> LowerChar(s[i])]

\* s.replace(/-$/, ''): one "-" at the end of the string is removed.
ReplaceTrailingDash(s) ==
    IF Len(s) > 0 /\ s[Len(s)] = "-" THEN SubSeq(s, 1, Len(s) - 1) ELSE s

Ido == <<"I", "d", "o">>

\* orchestratorIdoKey as init derives it (lines 685-686)
InitIdoKey(orch, prefix) ==
    LET featureName == ToLowerCase(ReplaceTrailingDash(prefix))
    IN  orch \o featureName \o Ido

\* exit storing the record under a key that is not lowercased.
ExitIdoKeyNotLowered(orch, prefix) ==
    orch \o ReplaceTrailingDash(prefix) \o Ido

\* orchestratorIdoKey as exit derives it (lines 575-576)
ExitIdoKey(orch, prefix) ==
    LET featureName == ToLowerCase(ReplaceTrailingDash(prefix))
    IN  orch \o featureName \o Ido

\* orchestratorIdoKey as restore derives it (lines 744-745)
RestoreIdoKey(orch, prefix) ==
    LET featureName == ToLowerCase(ReplaceTrailingDash(prefix))
    IN  orch \o featureName \o Ido

\* No key derived yet.
NoKey == <<"?">>

\* The prefixes the keys are derived for.
PrefixChars == {"A", "u", "-"}

AUTH == <<"A", "U", "T", "H", "-">>

ORCH == <<"O", "R", "C", "H", "-">>

Prefixes ==
    UNION {[1..n -> PrefixChars] : n \in 0..MaxPrefixLen}
    \cup {AUTH, <<"A", "U", "T", "H", "-", "-">>}

OrchestratorPrefixes == {ORCH, <<"o", "-", "A">>}

\* Outside the derivation of keys: the engine of the other specifications,
\* whose record is idoRec.
NoIdoKey == [prefix |-> KEY_PREFIX, orch |-> ORCH,
             init |-> NoKey, exit |-> NoKey, restore |-> NoKey]

----------------------------------------------------------------------------
\* Construction, lines 394-398, and the state service's store of signals
\* (state-control.service.ts, generateStateObject, lines 42-54)

\* The tier configurations an engine is constructed with.
\* Property a is in any of the tiers; property b is in none, in sessionStorage
\* or in ido.
Configs ==
    {NoConfig} \cup
    {Config(ls, ss \cup bt[1], ido \cup bt[2]) :
        ls \in SUBSET {"a"}, ss \in SUBSET {"a"}, ido \in SUBSET {"a"},
        bt \in {<<{}, {}>>, <<{"b"}, {}>>, <<{}, {"b"}>>}}

\* The stores an engine is constructed with: every property of one kind, or
\* plain values of which one cannot be serialized.
Stores ==
    {[k \in Keys |-> Cell(kind, IF k = "a" THEN "A" ELSE "NULL")] :
        kind \in {"plain", "cell", "signal"}}
    \cup {[k \in Keys |-> Plain(IF k = "a" THEN "CYC" ELSE "A")]}

Call(op, k, v, o) == [op |-> op, k |-> k, v |-> v, o |-> o]

\* The calls remembered after call c: c itself, the call before it when that
\* was a set, and the sequences  set, new instance, restore  and
\* set, exit, new session, restore  in full.
Push(c) ==
    IF Len(hist) = 1 /\ hist[1].op = "set"
    THEN <<c>> \o hist
    ELSE IF Len(hist) = 2 /\ hist[1].op = "new" /\ c.op = "restore"
    THEN <<c>> \o hist
    ELSE IF Len(hist) = 2 /\ hist[1].op = "exit" /\ c.op = "session"
    THEN <<c>> \o hist
    ELSE IF Len(hist) = 3 /\ hist[1].op = "session" /\ c.op = "restore"
    THEN <<c>> \o hist
    ELSE <<c>>

Init ==
    /\ permanent \in Configs
    /\ store0 \in Stores
    /\ store = store0
    /\ session = [k \in Keys |-> Absent]
    /\ local = [k \in Keys |-> Absent]
    /\ idoRec = IdoAbsent
    /\ threw = FALSE
    /\ hist = << >>
    /\ calls = 0
    /\ foreign = NoForeign
    /\ idoKey = NoIdoKey

\* The state after a call that leaves s, recorded as call c.
Becomes(s, c, t) ==
    /\ store' = s.store
    /\ session' = s.session
    /\ local' = s.local
    /\ idoRec' = s.idoRec
    /\ threw' = t
    /\ hist' = Push(c)
    /\ calls' = calls + 1
    /\ UNCHANGED <<permanent, store0, foreign, idoKey>>

set(k, v) ==
    /\ calls < MaxCalls
    /\ Becomes(SetResult(Cur, k, v), Call("set", k, v, FALSE), SetThrows(Cur, k, v))

get(k) ==
    /\ calls < MaxCalls
    /\ Becomes(GetResult(Cur, k), Call("get", k, GetReturn(Cur, k), FALSE), FALSE)

restore(o) ==
    /\ calls < MaxCalls
    /\ Becomes(RestoreResult(permanent, Cur, o), Call("restore", "-", "-", o), FALSE)

init(o) ==
    /\ calls < MaxCalls
    /\ Becomes(InitResult(permanent, Cur, o), Call("init", "-", "-", o),
               InitThrows(permanent, Cur, o))

exit(o) ==
    /\ calls < MaxCalls
    /\ Becomes(ExitResult(permanent, Cur, o), Call("exit", "-", "-", o), FALSE)

removeAll ==
    /\ calls < MaxCalls
    /\ Becomes(RemoveAllResult(Cur), Call("removeAll", "-", "-", FALSE), FALSE)

\* A fresh engine instance: same prefix, same configuration, same storages,
\* the store at its initial values (new SessionStorage(prefix, store, permanent)).
NewInstance ==
    /\ calls < MaxCalls
    /\ Becomes([Cur EXCEPT !.store = store0], Call("new", "-", "-", FALSE), FALSE)

\* The browser tab is closed: sessionStorage is emptied; the next instance
\* starts from the initial store.
NewSession ==
    /\ calls < MaxCalls
    /\ Becomes([Cur EXCEPT !.store = store0, !.session = [k \in Keys |-> Absent]],
               Call("session", "-", "-", FALSE), FALSE)

\* Something other than the engine damages an existing entry: its text is no
\* longer JSON.
CorruptSession(k) ==
    /\ calls < MaxCalls
    /\ session[k] # Absent
    /\ Becomes([Cur EXCEPT !.session[k] = BadText], Call("corrupt", k, "session", FALSE), FALSE)

CorruptLocal(k) ==
    /\ calls < MaxCalls
    /\ local[k] # Absent
    /\ Becomes([Cur EXCEPT !.local[k] = BadText], Call("corrupt", k, "local", FALSE), FALSE)

CorruptIdo ==
    /\ calls < MaxCalls
    /\ idoRec.kind # "absent"
    /\ Becomes([Cur EXCEPT !.idoRec = IdoBad], Call("corrupt", "-", "ido", FALSE), FALSE)

Next ==
    \/ \E kv \in SetInputs : set(kv[1], kv[2])
    \/ \E k \in Keys : get(k)
    \/ \E o \in BOOLEAN : restore(o)
    \/ \E o \in BOOLEAN : init(o)
    \/ \E o \in BOOLEAN : exit(o)
    \/ removeAll
    \/ NewInstance
    \/ NewSession
    \/ \E k \in Keys : CorruptSession(k)
    \/ \E k \in Keys : CorruptLocal(k)
    \/ CorruptIdo

Spec == Init /\ [][Next]_vars

----------------------------------------------------------------------------
\* The engine among other users of the same sessionStorage and localStorage:
\* engines with other prefixes, and a second instance with the same prefix.
\* Every call is synchronous, so calls of different engines interleave as
\* whole calls.

\* The state after a call that leaves s and the other engines' entries f.
BecomesShared(s, c, t, f) ==
    /\ store' = s.store
    /\ session' = s.session
    /\ local' = s.local
    /\ idoRec' = s.idoRec
    /\ threw' = t
    /\ hist' = Push(c)
    /\ calls' = calls + 1
    /\ foreign' = f
    /\ UNCHANGED <<permanent, store0, idoKey>>

SharedSet(k, v) ==
    /\ calls < MaxSharedCalls
    /\ BecomesShared(SetResult(Cur, k, v), Call("set", k, v, FALSE),
                     SetThrows(Cur, k, v), foreign)

SharedInit(o) ==
    /\ calls < MaxSharedCalls
    /\ BecomesShared(InitResult(permanent, Cur, o), Call("init", "-", "-", o),
                     InitThrows(permanent, Cur, o), foreign)

SharedRestore(o) ==
    /\ calls < MaxSharedCalls
    /\ BecomesShared(RestoreResult(permanent, Cur, o), Call("restore", "-", "-", o),
                     FALSE, foreign)

SharedExit(o) ==
    /\ calls < MaxSharedCalls
    /\ BecomesShared(ExitResult(permanent, Cur, o), Call("exit", "-", "-", o),
                     FALSE, ExitForeign(permanent, foreign))

SharedRemoveAll ==
    /\ calls < MaxSharedCalls
    /\ BecomesShared(RemoveAllResult(Cur), Call("removeAll", "-", "-", FALSE),
                     FALSE, RemoveAllForeign(foreign))

\* set(k, v) of a second instance with the same prefix: it writes the same
\* sessionStorage entry; the store it updates is its own.
PeerSetResult(s, k, v) == [s EXCEPT !.session = SetResult(s, k, v).session]

PeerSet(k, v) ==
    /\ calls < MaxSharedCalls
    /\ BecomesShared(PeerSetResult(Cur, k, v), Call("peerset", k, v, FALSE),
                     SetThrows(Cur, k, v), foreign)

\* set(c, v) of an engine with another prefix.
OtherSet(n, v) ==
    /\ calls < MaxSharedCalls
    /\ BecomesShared(Cur, Call("otherset", n, v, FALSE), FALSE,
                     [foreign EXCEPT ![n].session = Stringify(v)])

\* exit() of an engine with another prefix whose property c is in
\* localStorage.
OtherExit(n) ==
    /\ calls < MaxSharedCalls
    /\ foreign[n].session # Absent
    /\ BecomesShared(Cur, Call("otherexit", n, "-", FALSE), FALSE,
                     [foreign EXCEPT ![n] = [session |-> Absent, local |-> foreign[n].session]])

NextShared ==
    \/ \E kv \in SetInputs : SharedSet(kv[1], kv[2])
    \/ \E o \in BOOLEAN : SharedInit(o)
    \/ \E o \in BOOLEAN : SharedRestore(o)
    \/ \E o \in BOOLEAN : SharedExit(o)
    \/ SharedRemoveAll
    \/ \E kv \in SetInputs : PeerSet(kv[1], kv[2])
    \/ \E n \in Others : OtherSet(n, "A")
    \/ \E n \in Others : OtherExit(n)

\* The configurations of the engine that shares its storages: property a in
\* any of localStorage and sessionStorage, or no configuration.
SharedConfigs == {c \in Configs : c.ido = {} /\ "b" \notin c.sessionStorage}

InitShared == Init /\ permanent \in SharedConfigs

SpecShared == InitShared /\ [][NextShared]_vars

----------------------------------------------------------------------------
\* One engine that makes only set, init, restore and exit calls, from empty
\* storages.

NextEngine ==
    \/ \E kv \in SetInputs : set(kv[1], kv[2])
    \/ \E o \in BOOLEAN : init(o)
    \/ \E o \in BOOLEAN : restore(o)
    \/ \E o \in BOOLEAN : exit(o)

SpecEngine == Init /\ [][NextEngine]_vars

----------------------------------------------------------------------------
\* The derivation of the IDO key by init, exit and restore of one engine,
\* for the prefixes of Prefixes and OrchestratorPrefixes.

InitIdoKeys ==
    /\ idoKey \in [prefix : Prefixes, orch : OrchestratorPrefixes,
                   init : {NoKey}, exit : {NoKey}, restore : {NoKey}]
    /\ permanent = NoConfig
    /\ store0 = [k \in Keys |-> Plain(IF k = "a" THEN "A" ELSE "NULL")]
    /\ store = store0
    /\ session = [k \in Keys |-> Absent]
    /\ local = [k \in Keys |-> Absent]
    /\ idoRec = IdoAbsent
    /\ threw = FALSE
    /\ hist = << >>
    /\ calls = 0
    /\ foreign = NoForeign

EngineVars == <<permanent, store, session, local, idoRec, threw, store0, hist, calls, foreign>>

DeriveInit ==
    /\ idoKey.init = NoKey
    /\ idoKey' = [idoKey EXCEPT !.init = InitIdoKey(idoKey.orch, idoKey.prefix)]
    /\ UNCHANGED EngineVars

DeriveExit ==
    /\ idoKey.exit = NoKey
    /\ idoKey' = [idoKey EXCEPT !.exit = ExitIdoKey(idoKey.orch, idoKey.prefix)]
    /\ UNCHANGED EngineVars

DeriveRestore ==
    /\ idoKey.restore = NoKey
    /\ idoKey' = [idoKey EXCEPT !.restore = RestoreIdoKey(idoKey.orch, idoKey.prefix)]
    /\ UNCHANGED EngineVars

NextIdoKey == DeriveInit \/ DeriveExit \/ DeriveRestore

SpecIdoKey == InitIdoKeys /\ [][NextIdoKey]_vars

----------------------------------------------------------------------------
\* Reading the remembered calls

\* The last call was op.
After(op) == Len(hist) >= 1 /\ hist[1].op = op

\* The last two calls were a set that did not throw, then op.
AfterSetThen(op) ==
    /\ Len(hist) = 2
    /\ hist[1].op = op
    /\ hist[2].op = "set"
    /\ ~StringifyThrows(hist[2].v)

\* The last three calls were a set that did not throw, the construction of a
\* fresh instance, and restore() without an orchestrator.
AfterSetNewRestore ==
    /\ Len(hist) = 3
    /\ hist[1].op = "restore" /\ ~hist[1].o
    /\ hist[2].op = "new"
    /\ hist[3].op = "set" /\ ~StringifyThrows(hist[3].v)

\* This step is the call op.
Doing(op) == hist'[1].op = op /\ calls' = calls + 1

----------------------------------------------------------------------------
\* C1 Round-trip: after set(k, v) with a JSON value v and k in localStorage or
\* sessionStorage, a fresh instance that calls restore() has get(k) = v.
C1_RoundTrip ==
    (AfterSetNewRestore /\ permanent.on /\ hist[3].v \in JsonValues
       /\ hist[3].k \in permanent.localStorage \cup permanent.sessionStorage)
    => GetReturn(Cur, hist[3].k) = hist[3].v

\* C2 Teardown migration: for k in localStorage, after set(k, v) and exit()
\* localStorage holds the serialization of v under k and sessionStorage holds
\* no entry for k.
C2_TeardownMigration ==
    (AfterSetThen("exit") /\ permanent.on /\ hist[2].k \in permanent.localStorage)
    => /\ local[hist[2].k] = Stringify(hist[2].v)
       /\ session[hist[2].k] = Absent

C2_Witness ==
    /\ AfterSetThen("exit") /\ permanent.on
    /\ hist[2].k = "a" /\ hist[2].v = "B" /\ "a" \in permanent.localStorage
    /\ local["a"] = "tB" /\ session["a"] = Absent

\* C3 Teardown retention: for k in sessionStorage and not in localStorage,
\* after set(k, v) and exit() sessionStorage still holds the serialization of
\* v under k.
C3_TeardownRetention ==
    (AfterSetThen("exit") /\ permanent.on
       /\ hist[2].k \in permanent.sessionStorage \ permanent.localStorage)
    => session[hist[2].k] = Stringify(hist[2].v)

C3_Witness ==
    /\ AfterSetThen("exit") /\ permanent.on
    /\ hist[2].k = "a" /\ hist[2].v = "B"
    /\ "a" \in permanent.sessionStorage \ permanent.localStorage
    /\ session["a"] = "tB"

\* C4 Teardown drop: for k in none of localStorage, sessionStorage and ido,
\* after set(k, v) and exit() neither storage holds an entry for k and the
\* store no longer has the property k.
C4_TeardownDrop ==
    (AfterSetThen("exit")
       /\ hist[2].k \notin permanent.localStorage \cup permanent.sessionStorage \cup permanent.ido)
    => /\ session[hist[2].k] = Absent
       /\ local[hist[2].k] = Absent
       /\ store[hist[2].k] = NoCell

C4_Witness ==
    /\ AfterSetThen("exit") /\ permanent.on
    /\ hist[2].k = "a" /\ hist[2].v = "B"
    /\ "a" \notin permanent.localStorage \cup permanent.sessionStorage \cup permanent.ido
    /\ "b" \in permanent.sessionStorage
    /\ session["a"] = Absent /\ store["a"] = NoCell /\ store["b"] # NoCell

\* C7 set(k, v) writes the serialization of v into sessionStorage under k and
\* puts v into the store, and for k in localStorage the same call writes the
\* same text into localStorage.
C7_SetWritesThrough ==
    (After("set") /\ ~threw)
    => /\ session[hist[1].k] = Stringify(hist[1].v)
       /\ ValueOf(store[hist[1].k]) = hist[1].v
       /\ (permanent.on /\ hist[1].k \in permanent.localStorage
             => local[hist[1].k] = Stringify(hist[1].v))

----------------------------------------------------------------------------
\* What restore finds for a property

\* A text restore reads and JSON.parse rejects.
Malformed(t) == RestoreReads(t) /\ ~ParseOk(t)

\* The text of property k that the localStorage and sessionStorage steps
\* parse last: the localStorage entry when k is in localStorage and the entry
\* is read (it is then mirrored), otherwise the sessionStorage entry when k
\* is in sessionStorage.
Source(k) ==
    IF k \in permanent.localStorage /\ RestoreReads(local[k]) THEN local[k]
    ELSE IF k \in permanent.sessionStorage THEN session[k]
    ELSE Absent

\* restore meets a malformed entry of property k.
Fails(k) ==
    \/ k \in permanent.localStorage /\ Malformed(local[k])
    \/ k \in permanent.sessionStorage /\ Malformed(Source(k))

\* The IDO record handed to restore(o) holds a value for property k.
IdoHolds(k, o) ==
    /\ o /\ k \in permanent.ido
    /\ IdoParses(idoRec) /\ idoRec.members[Remote(k)] # Absent

----------------------------------------------------------------------------
C6_FailureIsolationAsClaimed ==
    [][\A k \in Keys :
        (Doing("restore") /\ permanent.on /\ Fails(k))
        => /\ ~threw'
           /\ store'[k] = store[k]
           /\ \A j \in Keys \ {k} :
                (RestoreReads(Source(j)) /\ ParseOk(Source(j)))
                => \/ ValueOf(store'[j]) = Parse(Source(j))
                   \/ IdoHolds(j, hist'[1].o)]_vars

\* C6 per-key failure isolation: as claimed, except that a failing property
\* which is also in ido takes the IDO value when the record handed to restore
\* holds one.
C6_FailureIsolation ==
    [][\A k \in Keys :
        (Doing("restore") /\ permanent.on /\ Fails(k))
        => /\ ~threw'
           /\ IF IdoHolds(k, hist'[1].o)
              THEN store'[k] = Plain(IdoMember(idoRec, Remote(k)))
              ELSE store'[k] = store[k]
           /\ \A j \in Keys \ {k} :
                (RestoreReads(Source(j)) /\ ParseOk(Source(j)))
                => IF IdoHolds(j, hist'[1].o)
                   THEN store'[j] = Plain(IdoMember(idoRec, Remote(j)))
                   ELSE store'[j] = Plain(Parse(Source(j)))]_vars

C6_Witness ==
    /\ After("restore") /\ ~hist[1].o /\ ~threw
    /\ permanent.sessionStorage = {"a", "b"} /\ permanent.localStorage = {}
    /\ session["b"] = BadText /\ session["a"] = "tB"
    /\ store0["a"].kind = "cell"
    /\ store["a"] = Plain("B")
    /\ store["b"] = Cell("cell", "A")

\* C8 IDO transfer at teardown: for every k in ido whose current value v is
\* defined when exit(orchestrator) is called, the IDO record holds v under
\* k's remote name after exit, whatever other tiers k is in.
C8_IdoTransfer ==
    [][\A k \in Keys :
        (/\ Doing("exit") /\ hist'[1].o /\ permanent.on
         /\ k \in permanent.ido
         /\ ValueOf(store[k]) \in {"A", "B"})
        => /\ idoRec'.kind = "obj"
           /\ idoRec'.members[Remote(k)] = Stringify(ValueOf(store[k]))]_vars

----------------------------------------------------------------------------
\* restore(o) treats every entry whose text is in T like a missing entry: the
\* store and sessionStorage end as they would without the entry, and a
\* property that has no other source is not written.
SentinelLikeMissing(T) ==
    \A k \in Keys :
        (Doing("restore") /\ permanent.on)
        => /\ (k \in permanent.localStorage /\ local[k] \in T)
              => LET without == RestoreResult(permanent, [Cur EXCEPT !.local[k] = Absent],
                                              hist'[1].o)
                 IN  /\ store' = without.store
                     /\ session' = without.session
                     /\ (k \notin permanent.sessionStorage /\ ~IdoHolds(k, hist'[1].o))
                          => store'[k] = store[k] /\ session'[k] = session[k]
           /\ (k \in permanent.sessionStorage /\ session[k] \in T)
              => LET without == RestoreResult(permanent, [Cur EXCEPT !.session[k] = Absent],
                                              hist'[1].o)
                 IN  /\ store' = without.store
                     /\ (~(k \in permanent.localStorage /\ RestoreReads(local[k]))
                           /\ ~IdoHolds(k, hist'[1].o))
                          => store'[k] = store[k]

----------------------------------------------------------------------------
\* The last four calls were a set of a JSON value, exit, the start of a new
\* browser session with a fresh instance, and restore() without an
\* orchestrator.
AfterSetExitSessionRestore ==
    /\ Len(hist) = 4
    /\ hist[1].op = "restore" /\ ~hist[1].o
    /\ hist[2].op = "session"
    /\ hist[3].op = "exit"
    /\ hist[4].op = "set" /\ hist[4].v \in JsonValues

\* C12 Cross-session lifecycle: for k in localStorage, after set(k, v) and
\* exit() in one session, a fresh instance in a later session (sessionStorage
\* empty) that calls restore() has v in the store under k, and sessionStorage
\* holds the serialization of v under k again.
C12_CrossSession ==
    (AfterSetExitSessionRestore /\ permanent.on /\ hist[4].k \in permanent.localStorage)
    => /\ ValueOf(store[hist[4].k]) = hist[4].v
       /\ session[hist[4].k] = Stringify(hist[4].v)

C12_Witness ==
    /\ AfterSetExitSessionRestore /\ permanent.on
    /\ hist[4].k = "a" /\ hist[4].v = "B" /\ "a" \in permanent.localStorage
    /\ store0["a"] = Cell("signal", "A")
    /\ store["a"] = Plain("B") /\ session["a"] = "tB" /\ local["a"] = "tB"

\* C13 init(orchestrator) publishes the current store outward: for each
\* property in localStorage whose current value is defined and not null it
\* writes the serialization of that value into localStorage, for each in
\* sessionStorage into sessionStorage, for those in ido it writes an IDO
\* record holding the value under the remote name; the store is not changed
\* and the call does not throw.
C13_InitPublishes ==
    [][(Doing("init") /\ hist'[1].o /\ permanent.on)
       => /\ ~threw'
          /\ store' = store
          /\ \A k \in Keys :
               ValueOf(store[k]) \in {"A", "B"}
               => /\ k \in permanent.localStorage
                       => local'[k] = Stringify(ValueOf(store[k]))
                  /\ k \in permanent.sessionStorage
                       => session'[k] = Stringify(ValueOf(store[k]))
                  /\ k \in permanent.ido
                       => /\ idoRec'.kind = "obj"
                          /\ idoRec'.members[Remote(k)] = Stringify(ValueOf(store[k]))]_vars

\* C14 Zero-config no-op: on an engine constructed without a configuration,
\* restore() and init() do not throw and leave the store, sessionStorage and
\* localStorage (the IDO record included) unchanged.
C14_ZeroConfigNoOp ==
    [][((Doing("restore") \/ Doing("init")) /\ ~permanent.on)
       => /\ ~threw'
          /\ store' = store
          /\ session' = session
          /\ local' = local
          /\ idoRec' = idoRec]_vars

C14_Witness ==
    /\ Len(hist) = 2 /\ hist[1].op = "restore"
    /\ hist[2].op = "set" /\ hist[2].k = "a" /\ hist[2].v = "B"
    /\ ~permanent.on /\ ~threw
    /\ store["a"] = Cell("cell", "B") /\ session["a"] = "tB"

\* C15 exit() on an engine without a configuration removes every
\* sessionStorage entry under the prefix and every property of the store, and
\* changes nothing in localStorage.
C15_ExitWithoutConfig ==
    [][(Doing("exit") /\ ~permanent.on)
       => /\ \A k \in Keys : session'[k] = Absent /\ store'[k] = NoCell
          /\ local' = local
          /\ idoRec' = idoRec]_vars

C15_Witness ==
    /\ AfterSetThen("exit") /\ ~permanent.on
    /\ hist[2].k = "a" /\ hist[2].v = "B"
    /\ store0["a"] = Cell("signal", "A")
    /\ \A k \in Keys : session[k] = Absent /\ store[k] = NoCell

\* C16 Container release at teardown: after exit() with a configuration the
\* store holds no property outside localStorage and sessionStorage (those
\* only in ido are removed too), and every property in localStorage or
\* sessionStorage that the store held before exit is still there.
C16_ContainerRelease ==
    [][(Doing("exit") /\ permanent.on)
       => \A k \in Keys :
            IF k \in permanent.localStorage \cup permanent.sessionStorage
            THEN store[k] # NoCell => store'[k] # NoCell
            ELSE store'[k] = NoCell]_vars

C16_Witness ==
    /\ After("exit") /\ hist[1].o /\ permanent.on
    /\ "a" \in permanent.localStorage
    /\ "b" \in permanent.ido \ permanent.sessionStorage
    /\ store0["b"] # NoCell
    /\ store["a"] # NoCell /\ store["b"] = NoCell

\* C17 set(k, v) with k in ido also forwards v to the orchestrator's IDO
\* record by read-modify-write: after the call the record holds v under k's
\* remote name and every other member is as before.
C17_SetForwardsToIdo ==
    [][(Doing("set") /\ ~threw' /\ permanent.on
          /\ hist'[1].k \in permanent.ido /\ hist'[1].v \in JsonValues)
       => /\ idoRec'.kind = "obj"
          /\ idoRec'.members[Remote(hist'[1].k)] = Stringify(hist'[1].v)
          /\ \A r \in Remotes \ {Remote(hist'[1].k)} :
               idoRec'.members[r] = idoRec.members[r]]_vars

\* init has to write the value of a property that cannot be serialized.
InitMeetsUnserializable(o) ==
    \E k \in Keys :
        /\ store[k] = Plain("CYC")
        /\ k \in permanent.localStorage \cup permanent.sessionStorage
             \cup (IF o THEN permanent.ido ELSE {})

C19_NoPartialState ==
    [][(Doing("set") /\ threw')
       => /\ store' = store
          /\ session' = session
          /\ local' = local
          /\ idoRec' = idoRec]_vars

\* C20 restore hands each restored value to a property that is a reactive
\* cell through the cell's set; every property that was a reactive cell
\* before restore is one after it.
C20_RestoreKeepsCells ==
    [][Doing("restore")
       => \A k \in Keys :
            store[k].kind \in {"cell", "signal"} => store'[k].kind = store[k].kind]_vars

\* C21 set(k, v) on a property that is a reactive cell calls the cell's set
\* with v and leaves the property a reactive cell, for the callable signals
\* the state service creates as for objects with a set method; only a plain
\* property is replaced by v.
C21_SetKeepsCells ==
    [][(Doing("set") /\ ~threw')
       => LET k == hist'[1].k
              v == hist'[1].v
          IN  IF store[k].kind \in {"cell", "signal"}
              THEN store'[k] = Cell(store[k].kind, v)
              ELSE store'[k] = Plain(v)]_vars

\* C22 get(k) returns the value the store holds for k (what the cell was last
\* set to, or the plain value), whatever the storages hold, and undefined for
\* a property the store does not have; it does not throw.
C22_GetReadsStore ==
    [][Doing("get")
       => /\ hist'[1].v = ValueOf(store[hist'[1].k])
          /\ ~threw']_vars

\* C23 Durable values persist until explicitly removed: while no set has left
\* an unsaved sessionStorage entry for k, the localStorage entry of a property
\* k in localStorage and not in sessionStorage that holds the serialization of
\* a value is the same after init, restore, exit, removeAll, the construction
\* of a new instance and the start of a new session.
C23_DurablePersists ==
    [][\A k \in Keys :
        (/\ permanent.on
         /\ k \in permanent.localStorage \ permanent.sessionStorage
         /\ local[k] \in {Stringify(v) : v \in JsonValues}
         /\ session[k] \in {Absent, local[k]}
         /\ \/ Doing("init") \/ Doing("restore") \/ Doing("exit")
            \/ Doing("removeAll") \/ Doing("new") \/ Doing("session"))
        => local'[k] = local[k]]_vars

\* C24 reset() (removeAll) removes every sessionStorage entry under the
\* prefix and leaves every localStorage entry, and the IDO record, unchanged.
C24_ResetKeepsDurable ==
    [][Doing("removeAll")
       => /\ \A k \in Keys : session'[k] = Absent
          /\ local' = local
          /\ idoRec' = idoRec]_vars

C24_Witness ==
    /\ AfterSetThen("removeAll") /\ permanent.on
    /\ hist[2].k = "b"
    /\ "a" \in permanent.localStorage
    /\ local["a"] = "tB"
    /\ \A k \in Keys : session[k] = Absent

\* C25 reset() resets the state to its initial values: after reset(),
\* getState() maps every field of a store of signals to the value the field
\* was constructed with.
C25_ResetToInitial ==
    (After("removeAll") /\ \A k \in Keys : store0[k].kind = "signal")
    => \A k \in Keys : GetState(store)[k] = store0[k].val

\* C28 exit() leaves the localStorage properties untouched: it deletes no
\* localStorage entry; the entry of a property in localStorage that has a
\* sessionStorage entry at exit takes that entry's text, and every other
\* localStorage entry is as before (only the IDO record may change besides).
C28_ExitKeepsDurable ==
    [][Doing("exit")
       => \A k \in Keys :
            local'[k] = IF permanent.on /\ k \in permanent.localStorage /\ session[k] # Absent
                        THEN session[k]
                        ELSE local[k]]_vars

C28_Witness ==
    /\ AfterSetThen("exit") /\ permanent.on
    /\ hist[2].k = "b"
    /\ "a" \in permanent.localStorage
    /\ local["a"] = "tB" /\ session["a"] = Absent

\* C29 restore() never writes to localStorage: the localStorage entries and
\* the IDO record after restore are those before it.
C29_RestoreKeepsDurable ==
    [][Doing("restore") => local' = local /\ idoRec' = idoRec]_vars

C29_Witness ==
    /\ AfterSetThen("restore") /\ permanent.on
    /\ hist[2].k = "a" /\ hist[2].v = "B"
    /\ "a" \in permanent.sessionStorage \ permanent.localStorage
    /\ store0["a"].kind = "signal"
    /\ session["a"] = "tB" /\ local["a"] = Absent /\ store["a"] = Plain("B")

C26_NamespaceIsolation ==
    [][(\/ Doing("set") \/ Doing("init") \/ Doing("restore")
        \/ Doing("exit") \/ Doing("removeAll"))
       => foreign' = foreign]_vars

\* C27 Last set wins: when two instances with the same prefix interleave set
\* calls on the same storages, every set of a JSON value completes without
\* throwing and the sessionStorage entry of its property is then the
\* serialization of its value, whatever was set before by either instance.
C27_LastSetWins ==
    [][((Doing("set") \/ Doing("peerset")) /\ hist'[1].v \in JsonValues)
       => /\ ~threw'
          /\ session'[hist'[1].k] = Stringify(hist'[1].v)]_vars

C27_Witness ==
    /\ Len(hist) = 2
    /\ hist[1].op = "peerset" /\ hist[1].k = "a" /\ hist[1].v = "B"
    /\ hist[2].op = "set" /\ hist[2].k = "a" /\ hist[2].v = "A"
    /\ ~threw /\ session["a"] = "tB"

\* C31 A malformed IDO record does not abort restore: restore does not
\* throw, the store and sessionStorage are as the localStorage and
\* sessionStorage steps left them, and a property only in ido is written
\* neither to the store nor to sessionStorage.
C31_MalformedIdoRecord ==
    [][(Doing("restore") /\ hist'[1].o /\ permanent.on /\ idoRec.kind = "bad")
       => /\ ~threw'
          /\ store' = RestoreSession(permanent, RestoreLocal(permanent, Cur)).store
          /\ session' = RestoreLocal(permanent, Cur).session
          /\ \A k \in permanent.ido \ (permanent.localStorage \cup permanent.sessionStorage) :
               store'[k] = store[k] /\ session'[k] = session[k]]_vars

C31_Witness ==
    /\ AfterSetThen("restore") /\ hist[1].o /\ permanent.on /\ ~threw
    /\ idoRec.kind = "bad"
    /\ hist[2].k = "b" /\ "b" \in permanent.sessionStorage
    /\ "a" \in permanent.ido \ (permanent.localStorage \cup permanent.sessionStorage)
    /\ store["b"] = Plain("A") /\ store["a"] = store0["a"]

C33_IdoKey ==
    LET p == idoKey.prefix
        n == IF Len(p) > 0 /\ p[Len(p)] = "-" THEN Len(p) - 1 ELSE Len(p)
        IsTheKey(key) ==
            /\ Len(key) = Len(idoKey.orch) + n + 3
            /\ SubSeq(key, 1, Len(idoKey.orch)) = idoKey.orch
            /\ \A i \in 1..n : key[Len(idoKey.orch) + i] = LowerChar(p[i])
            /\ SubSeq(key, Len(idoKey.orch) + n + 1, Len(key)) = <<"I", "d", "o">>
            /\ (p = AUTH /\ idoKey.orch = ORCH)
                 => key = <<"O", "R", "C", "H", "-", "a", "u", "t", "h", "I", "d", "o">>
        derived == {idoKey.init, idoKey.exit, idoKey.restore} \ {NoKey}
    IN  /\ \A key \in derived : IsTheKey(key)
        /\ Cardinality(derived) <= 1

C33_Witness ==
    /\ idoKey.prefix = AUTH /\ idoKey.orch = ORCH
    /\ idoKey.init = <<"O", "R", "C", "H", "-", "a", "u", "t", "h", "I", "d", "o">>
    /\ idoKey.exit = idoKey.init
    /\ idoKey.restore = idoKey.init

\* C34 A property k in both localStorage and sessionStorage whose two entries
\* hold different values: restore() ends with the localStorage value in the
\* store and the localStorage text in sessionStorage; exit() treats k as a
\* localStorage property, moving its sessionStorage entry to localStorage.
C34_DurableAndEphemeral ==
    [][\A k \in Keys :
        (/\ permanent.on
         /\ k \in permanent.localStorage \cap permanent.sessionStorage
         /\ ParseOk(local[k]) /\ ParseOk(session[k]) /\ local[k] # session[k])
        => /\ (Doing("restore") /\ ~hist'[1].o)
                => /\ ValueOf(store'[k]) = Parse(local[k])
                   /\ session'[k] = local[k]
           /\ Doing("exit")
                => /\ local'[k] = session[k]
                   /\ session'[k] = Absent]_vars

C34_Witness ==
    /\ AfterSetThen("restore") /\ ~hist[1].o /\ permanent.on
    /\ hist[2].k = "a" /\ hist[2].v = "B"
    /\ "a" \in permanent.localStorage \cap permanent.sessionStorage
    /\ local["a"] = "tA" /\ session["a"] = "tA" /\ store["a"] = Plain("A")

\* C35 After exit() with a tier configuration, every sessionStorage entry
\* whose key starts with KEY_PREFIX belongs to a property that is in
\* sessionStorage and not in localStorage, whether the entry is of a property
\* of the store, of no property of the store, or was written by another
\* engine.
C35_ExitLeavesOnlySession ==
    [][(Doing("exit") /\ permanent.on)
       => /\ \A k \in Keys :
               session'[k] # Absent
               => k \in permanent.sessionStorage \ permanent.localStorage
          /\ \A n \in Others :
               (StartsWith(OtherKey(n), KEY_PREFIX) /\ foreign'[n].session # Absent)
               => /\ Includes(permanent.sessionStorage, PropertyKey(OtherKey(n)))
                  /\ ~Includes(permanent.localStorage, PropertyKey(OtherKey(n)))]_vars

C35_Witness ==
    /\ AfterSetThen("exit") /\ permanent.on
    /\ hist[2].k = "a" /\ hist[2].v = "B"
    /\ "a" \in permanent.sessionStorage \ permanent.localStorage
    /\ session["a"] = "tB" /\ session["b"] = Absent
    /\ foreign["ext"].session = Absent /\ foreign["far"].session = "tA"

\* C36 Store and sessionStorage agree: from empty storages, after any
\* sequence of set, init, restore and exit calls of one engine, every
\* sessionStorage entry of a property the store has holds the serialization
\* of the property's current value.
C36_StoreAndSessionAgree ==
    \A k \in Keys :
        (session[k] # Absent /\ store[k] # NoCell)
        => /\ ~StringifyThrows(ValueOf(store[k]))
           /\ session[k] = Stringify(ValueOf(store[k]))

\* C37 get(k) is a pure read: it changes neither the store (no value
\* written, no cell written or replaced, no property added) nor a storage.
C37_GetIsPure ==
    [][Doing("get")
       => /\ store' = store
          /\ session' = session
          /\ local' = local
          /\ idoRec' = idoRec]_vars

\* C38 restore is idempotent: calling restore(orchestrator) again right after
\* restore(orchestrator) leaves the store, sessionStorage and localStorage as
\* the first call left them.
C38_RestoreIdempotent ==
    [][Doing("restore")
       => RestoreResult(permanent, State(store', session', local', idoRec'), hist'[1].o)
            = State(store', session', local', idoRec')]_vars

C38_Witness ==
    /\ After("restore") /\ hist[1].o /\ permanent.on
    /\ "a" \in permanent.localStorage \cap permanent.ido
    /\ local["a"] = "tB"
    /\ idoRec.kind = "obj" /\ idoRec.members["ra"] = "tA"
    /\ store["a"] = Plain("A") /\ session["a"] = "tA"

====
